---- MODULE Spec2Model ----
(***************************************************************************)
(* Model of iris-manager (iris.py): the binary configuration codec         *)
(* (Color, Cue, Header, load_from_bytes), the Python objects built by the  *)
(* model classes' constructors, and the serial message framing / download  *)
(* exchange described for the device protocol.                             *)
(***************************************************************************)
EXTENDS Integers, Sequences, FiniteSets, TLC

VARIABLES
    \* ---- binary codec (iris.py) ----
    byte_string,    \* the blob handed to the decoder
    pos,            \* read position of the caller's iterator iter(byte_string)
    result,         \* outcome of the most recent call
    stdout,         \* tuples written by print(*argument_tuple)
    calls,          \* number of calls made so far
    \* ---- Python objects built by the constructors ----
    lists,          \* heap of list objects: list id -> contents
    cue_objs,       \* Cue objects, each holding a reference to its channels
    period_objs,    \* Period objects, each holding a reference to its delays
    last_op,        \* the most recent operation on the objects
    \* ---- message framing: read_frame ----
    stream_timeout, \* read timeout configured on the stream
    frame_state,    \* "called", "reading", "returned", "InvalidConfiguration"
    accumulator,    \* bytes appended so far
    reads,          \* chunks returned by the stream's reads, in order
    \* ---- download state machine ----
    dl_state,       \* "Start", "Awaiting", "Done", "Failed"
    dl_error,       \* error kind carried by Failed
    configuration,  \* accumulating Configuration: cues and schedules
    tx,             \* signals written to the stream, in order
    rx              \* frames received from the stream, in order

codec_vars    == <<byte_string, pos, result, stdout, calls>>
object_vars   == <<lists, cue_objs, period_objs, last_op>>
frame_vars    == <<stream_timeout, frame_state, accumulator, reads>>
download_vars == <<dl_state, dl_error, configuration, tx, rx>>
vars == <<codec_vars, object_vars, frame_vars, download_vars>>

(***************************************************************************)
(* Bounds                                                                  *)
(***************************************************************************)
MaxCues  == 2       \* cues present in / announced by a generated blob
MaxCalls == 3       \* decoder calls per run
MaxObjects == 2     \* Cue objects, and Period objects, constructed per run
MaxDelays == 2      \* entries appended to one delays list
MaxReads == 4       \* reads issued by one read_frame call
MaxMessages == 3    \* frames received during one download

(***************************************************************************)
(* Python values                                                           *)
(***************************************************************************)
Min(a, b) == IF a < b THEN a ELSE b

\* A Python int and an Enum member are values of different types; a value is
\* carried with its type so that 2 and RampType.jump stay distinct.
PyInt(v) == [type |-> "int", value |-> v]

RampType == { [type |-> "RampType", value |-> 0],     \* linearHSL
              [type |-> "RampType", value |-> 1],     \* linearRGB
              [type |-> "RampType", value |-> 2] }    \* jump

\* An exception leaving a call.
Raise(e) == [kind |-> "error", error |-> e]

\* Variant: the bit one place higher is read.
get_bit_as_bool_shifted(number, bit_index) ==
    ((number \div (2 ^ (bit_index + 1))) % 2) = 1

\* number >> bit_index & 1 == 1
get_bit_as_bool(number, bit_index) ==
    ((number \div (2 ^ bit_index)) % 2) = 1

(***************************************************************************)
(* struct: '<' formats are little-endian, standard sizes, no padding.      *)
(***************************************************************************)
\* Size in bytes of one format character.
FieldSize(ch) == CASE ch = "B" -> 1
                   [] ch = "H" -> 2
                   [] ch = "L" -> 4

ColorFormat  == <<"B", "B", "B">>                     \* '<BBB'
\* Variant: delay and time_divisor swapped in the format.
CueFormat_swapped == <<"H", "H", "B", "L", "B", "L">>
CueFormat    == <<"H", "B", "H", "L", "B", "L">>      \* '<HBHLBL'
HeaderFormat == <<"H", "H">>                          \* '<2H'

RECURSIVE calcsize(_)
calcsize(format) ==
    IF format = <<>> THEN 0
    ELSE FieldSize(Head(format)) + calcsize(Tail(format))

RECURSIVE LittleEndian(_)
LittleEndian(data) ==
    IF data = <<>> THEN 0
    ELSE Head(data) + 256 * LittleEndian(Tail(data))

\* Value of one field.  A 32-bit value exceeds TLC's signed integers, so an
\* 'L' field is kept as its two 16-bit halves: value = hi * 65536 + lo.
FieldValue(ch, data) ==
    IF ch = "L"
    THEN [lo |-> LittleEndian(SubSeq(data, 1, 2)),
          hi |-> LittleEndian(SubSeq(data, 3, 4))]
    ELSE LittleEndian(data)

RECURSIVE UnpackFields(_, _)
UnpackFields(format, data) ==
    IF format = <<>> THEN <<>>
    ELSE LET n == FieldSize(Head(format))
         IN  <<FieldValue(Head(format), SubSeq(data, 1, n))>>
             \o UnpackFields(Tail(format), SubSeq(data, n + 1, Len(data)))

\* struct.unpack(format, buffer): the buffer must be a bytes-like object of
\* exactly calcsize(format) bytes.
struct_unpack(format, buffer) ==
    IF buffer.type # "bytes" THEN Raise("TypeError")
    ELSE IF Len(buffer.data) # calcsize(format) THEN Raise("struct.error")
    ELSE [kind |-> "tuple", value |-> UnpackFields(format, buffer.data)]

\* itertools.islice(bytes_iter, 0, n) on an iterator standing at position p:
\* the next n items, or fewer when the iterator runs out.
islice(bs, p, n) == SubSeq(bs, p + 1, Min(p + n, Len(bs)))
\* Position of the iterator after that slice has been consumed.
AfterSlice(bs, p, n) == Min(p + n, Len(bs))

PyBytes(items) == [type |-> "bytes", data |-> items]
PyList(items)  == [type |-> "list",  data |-> items]

(***************************************************************************)
(* Color                                                                   *)
(***************************************************************************)
Color(red, green, blue) == [red |-> red, green |-> green, blue |-> blue]

\* Color.from_bytes: returns the value (or exception) and the new position.
Color_from_bytes(bs, p) ==
    LET byte_list == PyBytes(islice(bs, p, calcsize(ColorFormat)))
        p1        == AfterSlice(bs, p, calcsize(ColorFormat))
        u         == struct_unpack(ColorFormat, byte_list)
    IN  IF u.kind = "error"
        THEN [pos |-> p1, ret |-> u]
        ELSE [pos |-> p1,
              ret |-> [kind |-> "Color",
                       value |-> Color(u.value[1], u.value[2], u.value[3])]]

(***************************************************************************)
(* Cue                                                                     *)
(***************************************************************************)
\* Cue.__init__ with every argument given.
Cue(channels, reverse, wrap_hue, time_divisor, delay, duration, ramp_type, ramp_parameter, start_color, end_color, offset_color) ==
    [channels |-> channels, reverse |-> reverse, wrap_hue |-> wrap_hue,
     time_divisor |-> time_divisor, delay |-> delay, duration |-> duration,
     ramp_type |-> ramp_type, ramp_parameter |-> ramp_parameter,
     start_color |-> start_color, end_color |-> end_color,
     offset_color |-> offset_color]

\* The loop "for i in range(12): channels.append(get_bit_as_bool(.., i))";
\* channels[i + 1] of the model is channels[i] of the program.
ExtractChannels(channels_reverse_wrap) ==
    [i \in 1..12 |-> get_bit_as_bool(channels_reverse_wrap, i - 1)]

\* Cue.from_bytes: returns the value (or exception), the new position of the
\* iterator and what was printed.
Cue_from_bytes(bs, p) ==
    LET byte_list == PyBytes(islice(bs, p, calcsize(CueFormat)))
        p1        == AfterSlice(bs, p, calcsize(CueFormat))
        u         == struct_unpack(CueFormat, byte_list)
    IN  IF u.kind = "error"
        THEN [pos |-> p1, ret |-> u, printed |-> <<>>]
        ELSE
        LET channels_reverse_wrap == u.value[1]
            argument_tuple == Tail(u.value)
            channels == ExtractChannels(channels_reverse_wrap)
            reverse  == get_bit_as_bool(channels_reverse_wrap, 12)
            wrap_hue == get_bit_as_bool(channels_reverse_wrap, 13)
            start_color  == Color_from_bytes(bs, p1)
            end_color    == Color_from_bytes(bs, start_color.pos)
            offset_color == Color_from_bytes(bs, end_color.pos)
        IN  IF start_color.ret.kind = "error"
            THEN [pos |-> start_color.pos, ret |-> start_color.ret,
                  printed |-> <<>>]
            ELSE IF end_color.ret.kind = "error"
            THEN [pos |-> end_color.pos, ret |-> end_color.ret,
                  printed |-> <<>>]
            ELSE IF offset_color.ret.kind = "error"
            THEN [pos |-> offset_color.pos, ret |-> offset_color.ret,
                  printed |-> <<>>]
            ELSE [pos |-> offset_color.pos,
                  ret |-> [kind |-> "Cue",
                           value |-> Cue(channels, reverse, wrap_hue,
                                         argument_tuple[1],
                                         argument_tuple[2],
                                         argument_tuple[3],
                                         PyInt(argument_tuple[4]),
                                         argument_tuple[5],
                                         start_color.ret.value,
                                         end_color.ret.value,
                                         offset_color.ret.value)],
                  printed |-> <<argument_tuple>>]

(***************************************************************************)
(* Header                                                                  *)
(***************************************************************************)
Header(number_of_cues, number_of_schedule_elements) ==
    [number_of_cues |-> number_of_cues,
     number_of_schedule_elements |-> number_of_schedule_elements]

\* Header.from_bytes collects the slice with list(...), not bytes(...).
Header_from_bytes(bs, p) ==
    LET byte_list == PyList(islice(bs, p, calcsize(HeaderFormat)))
        p1        == AfterSlice(bs, p, calcsize(HeaderFormat))
        u         == struct_unpack(HeaderFormat, byte_list)
    IN  IF u.kind = "error"
        THEN [pos |-> p1, ret |-> u]
        ELSE [pos |-> p1,
              ret |-> [kind |-> "Header",
                       value |-> Header(u.value[1], u.value[2])]]

(***************************************************************************)
(* load_from_bytes                                                         *)
(***************************************************************************)
\* "for i in range(header.number_of_cues): all_cues.append(Cue.from_bytes())"
RECURSIVE LoadCues(_, _, _, _, _, _)
LoadCues(bs, p, i, header, all_cues, printed) ==
    IF i >= header.number_of_cues
    THEN [kind |-> "loaded", header |-> header, all_cues |-> all_cues,
          consumed |-> p, printed |-> printed]
    ELSE LET c == Cue_from_bytes(bs, p)
         IN  IF c.ret.kind = "error"
             THEN [kind |-> "error", error |-> c.ret.error,
                   consumed |-> c.pos, printed |-> printed]
             ELSE LoadCues(bs, c.pos, i + 1, header,
                           Append(all_cues, c.ret.value),
                           printed \o c.printed)

\* load_from_bytes on its own iterator iter(byte_string).
load_from_bytes(bs) ==
    LET h == Header_from_bytes(bs, 0)
    IN  IF h.ret.kind = "error"
        THEN [kind |-> "error", error |-> h.ret.error,
              consumed |-> h.pos, printed |-> <<>>]
        ELSE LoadCues(bs, h.pos, 0, h.ret.value, <<>>, <<>>)

(***************************************************************************)
(* Input blobs                                                             *)
(***************************************************************************)
U16Bytes(v) == <<v % 256, v \div 256>>

\* Packed flag fields tried for the first cue: every single bit, and mixes.
PackedValues ==
    { 2 ^ b : b \in 0..15 }
    \cup { 0, 65535, 16383, 49152, 4095, 61440, 43690, 21845, 4660 }

\* ramp_type bytes tried for the first cue.
RampBytes == { 0, 1, 2, 3, 255 }

CueVariants ==
    { [packed |-> pk, ramp |-> 2] : pk \in PackedValues }
    \cup { [packed |-> 4660, ramp |-> r] : r \in RampBytes }

\* Byte at offset k of the j-th generated cue: distinct for distinct k.
Filler(j, k) == (10 * k + 101 * j + 7) % 256

\* The 23 bytes of one cue: packed field, ramp_type byte at offset 9.
CueBytes(packed, ramp, j) ==
    U16Bytes(packed) \o [k \in 1..21 |-> IF k + 1 = 9 THEN ramp ELSE Filler(j, k + 1)]

RECURSIVE CueRun(_, _)
CueRun(v, m) ==
    IF m = 0 THEN <<>>
    ELSE CueRun(v, m - 1)
         \o (IF m = 1 THEN CueBytes(v.packed, v.ramp, 1)
                      ELSE CueBytes((4369 * m) % 65536, m % 3, m))

\* Header fields tried: every small count, and one pair with high bytes set.
HeaderFields ==
    { <<n, 0>> : n \in 0..MaxCues } \cup { <<258, 513>> }

\* Blobs: a header, m cues, the end cut off by up to 22 bytes, or one byte
\* appended.
Blobs ==
    LET Whole(h, v, m) == U16Bytes(h[1]) \o U16Bytes(h[2]) \o CueRun(v, m)
        Variants(m) == IF m = 1 THEN CueVariants
                       ELSE { [packed |-> 4660, ramp |-> 2] }
    IN  UNION { UNION { UNION {
            { SubSeq(Whole(h, v, m), 1, Len(Whole(h, v, m)) - cut)
                : cut \in 0..Min(22, Len(Whole(h, v, m))) }
            \cup { Whole(h, v, m) \o <<238>> }
          : v \in Variants(m) } : m \in 0..MaxCues } : h \in HeaderFields }

(***************************************************************************)
(* Calls into the codec                                                    *)
(***************************************************************************)
NoResult == [op |-> "none", at |-> 0, out |-> [kind |-> "none"]]

CodecIdle ==
    /\ byte_string = <<>>
    /\ pos = 0
    /\ result = NoResult
    /\ stdout = <<>>
    /\ calls = 0

ObjectsIdle ==
    /\ lists = <<>>
    /\ cue_objs = <<>>
    /\ period_objs = <<>>
    /\ last_op = [op |-> "none", obj |-> 0]

FrameIdle ==
    /\ stream_timeout = 0
    /\ frame_state = "idle"
    /\ accumulator = <<>>
    /\ reads = <<>>

DownloadIdle ==
    /\ dl_state = "idle"
    /\ dl_error = "none"
    /\ configuration = [cues |-> <<>>, schedules |-> <<>>]
    /\ tx = <<>>
    /\ rx = <<>>

\* bytes_iter = iter(byte_string) in the caller.
CodecInit ==
    /\ byte_string \in Blobs
    /\ pos = 0
    /\ result = NoResult
    /\ stdout = <<>>
    /\ calls = 0
    /\ ObjectsIdle
    /\ FrameIdle
    /\ DownloadIdle

\* header, all_cues = load_from_bytes(byte_string)
Call_load_from_bytes ==
    /\ calls < MaxCalls
    /\ LET r == load_from_bytes(byte_string)
       IN  /\ result' = [op |-> "load_from_bytes", at |-> 0, out |-> r]
           /\ stdout' = stdout \o r.printed
    /\ calls' = calls + 1
    /\ UNCHANGED <<byte_string, pos, object_vars, frame_vars, download_vars>>

\* Header.from_bytes(bytes_iter) on the caller's iterator
Call_Header_from_bytes ==
    /\ calls < MaxCalls
    /\ LET r == Header_from_bytes(byte_string, pos)
       IN  /\ result' = [op |-> "Header.from_bytes", at |-> pos, out |-> r.ret]
           /\ pos' = r.pos
    /\ calls' = calls + 1
    /\ UNCHANGED <<byte_string, stdout, object_vars, frame_vars, download_vars>>

\* Cue.from_bytes(bytes_iter) on the caller's iterator
Call_Cue_from_bytes ==
    /\ calls < MaxCalls
    /\ LET r == Cue_from_bytes(byte_string, pos)
       IN  /\ result' = [op |-> "Cue.from_bytes", at |-> pos, out |-> r.ret]
           /\ pos' = r.pos
           /\ stdout' = stdout \o r.printed
    /\ calls' = calls + 1
    /\ UNCHANGED <<byte_string, object_vars, frame_vars, download_vars>>

CodecNext ==
    \/ Call_load_from_bytes
    \/ Call_Header_from_bytes
    \/ Call_Cue_from_bytes

CodecSpec == CodecInit /\ [][CodecNext]_vars

(***************************************************************************)
(* Objects built by Cue.__init__ and Period.__init__                       *)
(*                                                                         *)
(* A default argument is evaluated once, when the def statement runs; the  *)
(* list it yields is one object, referred to by every call that omits the  *)
(* argument.  Lists live in a heap and objects hold references into it.    *)
(***************************************************************************)
\* channels=[False for _ in range(12)] in the signature of Cue.__init__
CueDefaultChannels == 1
\* delays=[] in the signature of Period.__init__
PeriodDefaultDelays == 2

NoArgument == 0     \* the call leaves the argument out

\* Heap once the class bodies have run.
HeapAfterImport == << [i \in 1..12 |-> FALSE], <<>> >>

\* Cue.__init__: self.channels = channels
Cue_init(channels) ==
    [channels |-> IF channels = NoArgument THEN CueDefaultChannels ELSE channels]

\* Period.__init__: self.cue_id = cue_id; self.delays = delays
Period_init(cue_id, delays) ==
    [cue_id |-> cue_id,
     delays |-> IF delays = NoArgument THEN PeriodDefaultDelays ELSE delays]

\* Arguments tried by the calls below.
CueIds == {0}
DelayValues == {10}
ChannelIndexes == {1, 12}

ObjectsInit ==
    /\ lists = HeapAfterImport
    /\ cue_objs = <<>>
    /\ period_objs = <<>>
    /\ last_op = [op |-> "none", obj |-> 0]
    /\ CodecIdle
    /\ FrameIdle
    /\ DownloadIdle

\* c = Cue()
NewCueDefault ==
    /\ Len(cue_objs) < MaxObjects
    /\ cue_objs' = Append(cue_objs, Cue_init(NoArgument))
    /\ last_op' = [op |-> "Cue()", obj |-> Len(cue_objs) + 1]
    /\ UNCHANGED <<lists, period_objs, codec_vars, frame_vars, download_vars>>

\* c = Cue(channels=[...]) with a list the caller has just built
NewCueExplicit ==
    /\ Len(cue_objs) < MaxObjects
    /\ \E b \in BOOLEAN :
         /\ lists' = Append(lists, [i \in 1..12 |-> b])
         /\ cue_objs' = Append(cue_objs, Cue_init(Len(lists) + 1))
    /\ last_op' = [op |-> "Cue(channels)", obj |-> Len(cue_objs) + 1]
    /\ UNCHANGED <<period_objs, codec_vars, frame_vars, download_vars>>

\* c.channels[i] = b
SetChannel ==
    /\ \E c \in 1..Len(cue_objs), i \in ChannelIndexes, b \in BOOLEAN :
         /\ lists' = [lists EXCEPT ![cue_objs[c].channels][i] = b]
         /\ last_op' = [op |-> "channels[i] = b", obj |-> c]
    /\ UNCHANGED <<cue_objs, period_objs, codec_vars, frame_vars, download_vars>>

\* p = Period(cue_id)
NewPeriodDefault ==
    /\ Len(period_objs) < MaxObjects
    /\ \E cue_id \in CueIds :
         period_objs' = Append(period_objs, Period_init(cue_id, NoArgument))
    /\ last_op' = [op |-> "Period(cue_id)", obj |-> Len(period_objs) + 1]
    /\ UNCHANGED <<lists, cue_objs, codec_vars, frame_vars, download_vars>>

\* p = Period(cue_id, []) with a list the caller has just built
NewPeriodExplicit ==
    /\ Len(period_objs) < MaxObjects
    /\ \E cue_id \in CueIds :
         /\ lists' = Append(lists, <<>>)
         /\ period_objs' = Append(period_objs, Period_init(cue_id, Len(lists) + 1))
    /\ last_op' = [op |-> "Period(cue_id, delays)", obj |-> Len(period_objs) + 1]
    /\ UNCHANGED <<cue_objs, codec_vars, frame_vars, download_vars>>

\* p.delays.append(d)
AppendDelay ==
    /\ \E p \in 1..Len(period_objs), d \in DelayValues :
         /\ Len(lists[period_objs[p].delays]) < MaxDelays
         /\ lists' = [lists EXCEPT ![period_objs[p].delays] = Append(@, d)]
         /\ last_op' = [op |-> "delays.append(d)", obj |-> p]
    /\ UNCHANGED <<cue_objs, period_objs, codec_vars, frame_vars, download_vars>>

ObjectsNext ==
    \/ NewCueDefault
    \/ NewCueExplicit
    \/ SetChannel
    \/ NewPeriodDefault
    \/ NewPeriodExplicit
    \/ AppendDelay

ObjectsSpec == ObjectsInit /\ [][ObjectsNext]_vars

(***************************************************************************)
(* Message framing: read_frame                                             *)
(***************************************************************************)
ChunkSize == 200        \* default size asked of every read

\* Lengths and contents of the chunks a read may return.
ChunkLengths == { 0, 1, 50, ChunkSize - 1, ChunkSize }
ChunkFill == { 17, 34 }
Chunks == { [k \in 1..n |-> f] : n \in ChunkLengths, f \in ChunkFill }

\* Variant: the loop ends only on a read of no bytes.
IsShortRead_onlyEmpty(chunk) == Len(chunk) = 0

\* The loop of read_frame ends with the read that returns a short chunk.
IsShortRead(chunk) == Len(chunk) < ChunkSize

FrameInit ==
    /\ stream_timeout \in {0, 1}
    /\ frame_state = "called"
    /\ accumulator = <<>>
    /\ reads = <<>>
    /\ CodecIdle
    /\ ObjectsIdle
    /\ DownloadIdle

\* read_frame, before any I/O: a zero timeout is a caller error.
read_frame_check ==
    /\ frame_state = "called"
    /\ frame_state' = IF stream_timeout = 0 THEN "InvalidConfiguration"
                      ELSE "reading"
    /\ UNCHANGED <<stream_timeout, accumulator, reads>>
    /\ UNCHANGED <<codec_vars, object_vars, download_vars>>

\* read_frame, one turn of the loop: read a chunk, append it, return the
\* accumulator if the chunk was short.
read_frame_read ==
    /\ frame_state = "reading"
    /\ Len(reads) < MaxReads
    /\ \E chunk \in Chunks :
         /\ reads' = Append(reads, chunk)
         /\ accumulator' = accumulator \o chunk
         /\ frame_state' = IF IsShortRead(chunk) THEN "returned" ELSE "reading"
    /\ UNCHANGED stream_timeout
    /\ UNCHANGED <<codec_vars, object_vars, download_vars>>

FrameNext ==
    \/ read_frame_check
    \/ read_frame_read

FrameSpec == FrameInit /\ [][FrameNext]_vars

(***************************************************************************)
(* Transport protocol and download state machine                           *)
(***************************************************************************)
TextTag == 4        \* first byte of a text status frame

Signals == { "RequestInfo", "DownloadConfiguration", "Confirm", "RequestNext" }

\* A frame: its first byte (-1 for a frame of no bytes) and what the bytes
\* hold: text, or an envelope with one of signal / cue / schedule present,
\* or no field present, or bytes the envelope decoder rejects.
Frames ==
    { [tag |-> TextTag, has |-> "text", value |-> "Motor stalled"] }
    \cup { [tag |-> 8, has |-> "signal", value |-> sg] : sg \in Signals }
    \cup { [tag |-> 18, has |-> "cue", value |-> c] : c \in {"Cue#1", "Cue#2"} }
    \cup { [tag |-> 26, has |-> "schedule", value |-> "Schedule#1"] }
    \cup { [tag |-> -1, has |-> "nothing", value |-> ""] }
    \cup { [tag |-> 255, has |-> "malformed", value |-> ""] }

IsTextStatusFrame(frame) == frame.tag = TextTag

\* receive_message on a frame already read
receive_message(frame) ==
    IF IsTextStatusFrame(frame)
    THEN [kind |-> "error", error |-> "DeviceReported", detail |-> frame]
    ELSE IF frame.has = "malformed"
    THEN [kind |-> "error", error |-> "ProtocolDecodeError", detail |-> frame]
    ELSE [kind |-> "envelope", error |-> "none", detail |-> frame]

\* send_signal: an envelope with only the signal set is written
send_signal(sent, signal) == Append(sent, signal)

DownloadInit ==
    /\ dl_state = "Start"
    /\ dl_error = "none"
    /\ configuration = [cues |-> <<>>, schedules |-> <<>>]
    /\ tx = <<>>
    /\ rx = <<>>
    /\ CodecIdle
    /\ ObjectsIdle
    /\ FrameIdle

\* Transition 1
Start ==
    /\ dl_state = "Start"
    /\ tx' = send_signal(tx, "DownloadConfiguration")
    /\ dl_state' = "Awaiting"
    /\ UNCHANGED <<dl_error, configuration, rx>>
    /\ UNCHANGED <<codec_vars, object_vars, frame_vars>>

\* Transition 2, the payload is a Cue
AccumulateCue(frame) ==
    /\ receive_message(frame).kind = "envelope"
    /\ frame.has = "cue"
    /\ configuration' = [configuration EXCEPT !.cues = Append(@, frame.value)]
    /\ tx' = send_signal(tx, "RequestNext")
    /\ dl_state' = "Awaiting"
    /\ UNCHANGED dl_error

\* Variant: a schedule entry is stored without asking for the next message.
AccumulateSchedule_silent(frame) ==
    /\ receive_message(frame).kind = "envelope"
    /\ frame.has = "schedule"
    /\ configuration' = [configuration EXCEPT !.schedules = Append(@, frame.value)]
    /\ dl_state' = "Awaiting"
    /\ UNCHANGED <<dl_error, tx>>

\* Transition 2, the payload is a schedule entry
AccumulateSchedule(frame) ==
    /\ receive_message(frame).kind = "envelope"
    /\ frame.has = "schedule"
    /\ configuration' = [configuration EXCEPT !.schedules = Append(@, frame.value)]
    /\ tx' = send_signal(tx, "RequestNext")
    /\ dl_state' = "Awaiting"
    /\ UNCHANGED dl_error

\* Transition 2, the payload is signal == Confirm
Done(frame) ==
    /\ receive_message(frame).kind = "envelope"
    /\ frame.has = "signal"
    /\ frame.value = "Confirm"
    /\ dl_state' = "Done"
    /\ UNCHANGED <<dl_error, configuration, tx>>

\* Transition 2, anything else
Unexpected(frame) ==
    /\ receive_message(frame).kind = "envelope"
    /\ \/ frame.has = "nothing"
       \/ frame.has = "signal" /\ frame.value # "Confirm"
    /\ dl_state' = "Failed"
    /\ dl_error' = "UnexpectedMessage"
    /\ UNCHANGED <<configuration, tx>>

\* Variant: an error raised by receive_message ends the download as success.
Failed_asSuccess(frame) ==
    /\ receive_message(frame).kind = "error"
    /\ dl_state' = "Done"
    /\ UNCHANGED <<dl_error, configuration, tx>>

\* Transition 3: an error raised by receive_message propagates
Failed(frame) ==
    /\ receive_message(frame).kind = "error"
    /\ dl_state' = "Failed"
    /\ dl_error' = receive_message(frame).error
    /\ UNCHANGED <<configuration, tx>>

\* Awaiting: receive one message and classify it
Awaiting ==
    /\ dl_state = "Awaiting"
    /\ Len(rx) < MaxMessages
    /\ \E frame \in Frames :
         /\ rx' = Append(rx, frame)
         /\ \/ AccumulateCue(frame)
            \/ AccumulateSchedule(frame)
            \/ Done(frame)
            \/ Unexpected(frame)
            \/ Failed(frame)
    /\ UNCHANGED <<codec_vars, object_vars, frame_vars>>

DownloadNext ==
    \/ Start
    \/ Awaiting

DownloadSpec == DownloadInit /\ [][DownloadNext]_vars

(***************************************************************************)
(* Properties                                                              *)
(***************************************************************************)
\* Byte k (counted from 0) of the blob, and little-endian 16-bit value at k.
ByteAt(k) == byte_string[k + 1]
U16At(k) == ByteAt(k) + 256 * ByteAt(k + 1)

RECURSIVE BoolsToInt(_)
BoolsToInt(bools) ==
    IF Len(bools) = 0 THEN 0
    ELSE (IF bools[1] THEN 1 ELSE 0)
         + 2 * BoolsToInt([i \in 1..(Len(bools) - 1) |-> bools[i + 1]])

BoolToInt(b) == IF b THEN 1 ELSE 0

LoadCalled == result.op = "load_from_bytes"
CueDecoded == result.op = "Cue.from_bytes" /\ result.out.kind = "Cue"

\* C1: a blob holding a header that announces n cues and at least 23*n more
\* bytes loads as Header(n, second u16) and exactly n cues, the k-th being
\* the decoding of bytes [4+23k, 4+23k+23).
C1_LoadReturnsHeaderAndCues ==
    (/\ LoadCalled
     /\ Len(byte_string) >= 4
     /\ Len(byte_string) - 4 >= 23 * U16At(0))
    => /\ result.out.kind = "loaded"
       /\ result.out.header.number_of_cues = U16At(0)
       /\ result.out.header.number_of_schedule_elements = U16At(2)
       /\ Len(result.out.all_cues) = U16At(0)
       /\ \A k \in 0..(U16At(0) - 1) :
            result.out.all_cues[k + 1]
                = Cue_from_bytes(byte_string, 4 + 23 * k).ret.value

\* C2: a blob whose header announces n >= 1 cues but holds fewer than 23*n
\* bytes after the header makes load_from_bytes fail with the truncation
\* error (struct.error), never return cues.
C2_TruncatedBlobFailsWithTruncation ==
    (/\ LoadCalled
     /\ Len(byte_string) >= 4
     /\ U16At(0) >= 1
     /\ Len(byte_string) - 4 < 23 * U16At(0))
    => /\ result.out.kind = "error"
       /\ result.out.error = "struct.error"

\* C3: in a decoded Cue, channels[i] is bit i of the packed field for i in
\* 0..11, reverse is bit 12 and wrap_hue bit 13; bits 14 and 15 have no
\* influence (the decoded bits rebuild the packed field modulo 2^14).
C3_PackedBits ==
    CueDecoded =>
        LET c == result.out.value
        IN  /\ DOMAIN c.channels = 1..12
            /\ BoolsToInt(c.channels) + 4096 * BoolToInt(c.reverse)
                  + 8192 * BoolToInt(c.wrap_hue)
               = U16At(result.at) % 16384

C3_Witness ==
    /\ CueDecoded
    /\ U16At(result.at) = 61440
    /\ result.out.value.reverse
    /\ result.out.value.wrap_hue
    /\ BoolsToInt(result.out.value.channels) = 0

\* C4: with at least 23 bytes left, Cue.from_bytes returns a Cue, moves the
\* iterator on by exactly 23 bytes and takes every field from its fixed
\* little-endian offset.
C4_CueLayout ==
    (/\ result.op = "Cue.from_bytes"
     /\ Len(byte_string) - result.at >= 23)
    => LET c == result.out.value
           a == result.at
       IN  /\ result.out.kind = "Cue"
           /\ pos = a + 23
           /\ BoolsToInt(c.channels) = U16At(a) % 4096
           /\ c.time_divisor = ByteAt(a + 2)
           /\ c.delay = U16At(a + 3)
           /\ c.duration = [lo |-> U16At(a + 5), hi |-> U16At(a + 7)]
           /\ c.ramp_type.value = ByteAt(a + 9)
           /\ c.ramp_parameter = [lo |-> U16At(a + 10), hi |-> U16At(a + 12)]
           /\ c.start_color = [red |-> ByteAt(a + 14), green |-> ByteAt(a + 15), blue |-> ByteAt(a + 16)]
           /\ c.end_color = [red |-> ByteAt(a + 17), green |-> ByteAt(a + 18), blue |-> ByteAt(a + 19)]
           /\ c.offset_color = [red |-> ByteAt(a + 20), green |-> ByteAt(a + 21), blue |-> ByteAt(a + 22)]

\* Two cues decoded one after the other: the second starts at byte 23.
C4_Witness ==
    /\ CueDecoded
    /\ result.at = 23
    /\ pos = 46
    /\ Len(stdout) = 2

\* C5: a blob whose header has number_of_cues = 0 loads with an empty cue
\* sequence, 4 bytes consumed.
C5_NoCuesLoadsEmpty ==
    (/\ LoadCalled
     /\ Len(byte_string) >= 4
     /\ U16At(0) = 0)
    => /\ result.out.kind = "loaded"
       /\ result.out.all_cues = <<>>
       /\ result.out.consumed = 4

\* C6: Cue.from_bytes returns no Cue for a ramp_type byte outside 0..2, and
\* the ramp_type of every Cue it returns is a RampType member.
C6_RampTypeIsMember ==
    /\ (/\ result.op = "Cue.from_bytes"
        /\ Len(byte_string) - result.at >= 23
        /\ ByteAt(result.at + 9) \notin {0, 1, 2})
       => result.out.kind # "Cue"
    /\ CueDecoded => result.out.value.ramp_type \in RampType

Count(seq, x) == Cardinality({ i \in 1..Len(seq) : seq[i] = x })
Payloads(frames) ==
    Cardinality({ i \in 1..Len(frames) : frames[i].has \in {"cue", "schedule"} })
ConfirmReceived(frames) ==
    \E i \in 1..Len(frames) : frames[i].has = "signal" /\ frames[i].value = "Confirm"

\* C7: the number of RequestNext signals sent equals the number of payloads
\* accepted, each accepted payload is followed at once by one RequestNext,
\* and nothing is sent once a Confirm has been received.
C7_OneRequestNextPerPayload ==
    [][ /\ Count(tx', "RequestNext") = Payloads(rx')
        /\ Payloads(rx') = Len(configuration'.cues) + Len(configuration'.schedules)
        /\ (rx' # rx /\ rx'[Len(rx')].has \in {"cue", "schedule"})
              => tx' = Append(tx, "RequestNext")
        /\ (rx' # rx /\ rx'[Len(rx')].has \notin {"cue", "schedule"})
              => tx' = tx
        /\ ConfirmReceived(rx) => tx' = tx
      ]_vars

C7_Witness ==
    /\ dl_state = "Done"
    /\ configuration = [cues |-> <<"Cue#1">>, schedules |-> <<"Schedule#1">>]
    /\ tx = <<"DownloadConfiguration", "RequestNext", "RequestNext">>

RECURSIVE Concat(_)
Concat(chunks) ==
    IF Len(chunks) = 0 THEN <<>>
    ELSE Concat(SubSeq(chunks, 1, Len(chunks) - 1)) \o chunks[Len(chunks)]

\* C9: read_frame returns exactly when a read comes back shorter than the
\* chunk size: every read before the last one issued was full, the frame is
\* returned iff the last read was short, and the accumulator is the chunks
\* read, in order.
C9_StopsAtFirstShortRead ==
    /\ \A i \in 1..(Len(reads) - 1) : Len(reads[i]) = ChunkSize
    /\ accumulator = Concat(reads)
    /\ frame_state = "returned"
         => (Len(reads) >= 1 /\ Len(reads[Len(reads)]) < ChunkSize)
    /\ frame_state = "reading"
         => (Len(reads) = 0 \/ Len(reads[Len(reads)]) = ChunkSize)

C9_Witness ==
    /\ frame_state = "returned"
    /\ Len(reads) = 3
    /\ Len(reads[1]) = 200 /\ Len(reads[2]) = 200 /\ Len(reads[3]) = 50
    /\ Len(accumulator) = 450

\* C10: changing the channels of one Cue (the delays of one Period) leaves
\* the channels (delays) of every other object unchanged, and an object
\* constructed without the argument starts from the default's initial value.
C10_NoSharedDefaults ==
    [][ /\ last_op'.op = "channels[i] = b" =>
             \A d \in 1..Len(cue_objs) :
                d # last_op'.obj =>
                    lists'[cue_objs'[d].channels] = lists[cue_objs[d].channels]
        /\ last_op'.op = "delays.append(d)" =>
             \A d \in 1..Len(period_objs) :
                d # last_op'.obj =>
                    lists'[period_objs'[d].delays] = lists[period_objs[d].delays]
        /\ last_op'.op = "Cue()" =>
             lists'[cue_objs'[Len(cue_objs')].channels] = [i \in 1..12 |-> FALSE]
        /\ last_op'.op = "Period(cue_id)" =>
             lists'[period_objs'[Len(period_objs')].delays] = <<>>
      ]_vars

====
